---------------------------- MODULE Spec2Model ----------------------------
(***************************************************************************)
(* Model of app.py, a Streamlit sales dashboard.  The script is executed   *)
(* top to bottom on every run: the canonical table df is loaded, the       *)
(* global aggregates (agregados_pestana_1) are computed, and the four tabs *)
(* are evaluated in order.  An uncaught Python exception ends the run.     *)
(* A widget selection (store, state, year, heatmap metric) starts a new    *)
(* run of the script.                                                      *)
(*                                                                         *)
(* Cells are options: <<>> is a missing value (NaN / None), <<v>> a value. *)
(* Floating-point results are exact rationals extended with nan, inf and   *)
(* -inf, so that division by zero behaves as it does in numpy.             *)
(***************************************************************************)
EXTENDS Integers, Sequences, FiniteSets, TLC

\* ------------------------------------------------------------------ bounds
\* Longest table of freely chosen rows.
MaxRows == 2
\* Largest number of extra groups added to a table (above the top-10 limit).
MaxFill == 11
\* Largest number of optional columns absent from the loaded table.
MaxAbsent == 1
\* Largest number of script runs (the first run plus reruns on selection).
MaxRuns == 2

\* ------------------------------------------------------------------ cells
Missing == <<>>
Some(v) == <<v>>
IsNA(c) == c = Missing
NotNA(c) == c # Missing
Val(c) == c[1]

\* Every string of the model, in Python's (code point) string order.
StrOrder ==
    << "", " ", "A", "B", "C", "D", "Domingo", "E", "F", "Friday", "G", "H",
       "I", "J", "Jueves", "K", "L", "Lunes", "M", "Martes", "Miércoles",
       "Mon", "Monday", "N", "O", "P", "Saturday", "Sunday", "Sábado",
       "Thursday", "Tuesday", "Viernes", "Wednesday", "X", "Y" >>

StrRank(s) == CHOOSE i \in 1..Len(StrOrder) : StrOrder[i] = s

\* sorted(S) for a set of keys, rank giving each key its place in the order.
RECURSIVE SortedSeq(_, _)
SortedSeq(S, rank) ==
    IF S = {} THEN << >>
    ELSE LET m == CHOOSE x \in S : \A y \in S : rank[x] <= rank[y]
         IN  << m >> \o SortedSeq(S \ {m}, rank)

SortedInts(S) == SortedSeq(S, [k \in S |-> k])
SortedStrs(S) == SortedSeq(S, [k \in S |-> StrRank(k)])

SeqRange(s) == { s[i] : i \in 1..Len(s) }

\* ---------------------------------------------------------------- numbers
Abs(x) == IF x < 0 THEN -x ELSE x

RECURSIVE GCD(_, _)
GCD(a, b) == IF b = 0 THEN a ELSE GCD(b, a % b)

\* The rational n/d (d # 0) in lowest terms with a positive denominator.
Rat(n, d) ==
    LET g == GCD(Abs(n), Abs(d))
        s == IF d < 0 THEN -1 ELSE 1
    IN  [t |-> "num", n |-> (s * n) \div g, d |-> (s * d) \div g]

Num(i) == [t |-> "num", n |-> i, d |-> 1]
NaN == [t |-> "nan", n |-> 0, d |-> 1]
PosInf == [t |-> "inf", n |-> 0, d |-> 1]
NegInf == [t |-> "ninf", n |-> 0, d |-> 1]
Zero == Num(0)

IsNaN(a) == a.t = "nan"
IsNum(a) == a.t = "num"
IsInf(a) == a.t \in {"inf", "ninf"}
Sign(a) == CASE a.t = "inf" -> 1
             [] a.t = "ninf" -> -1
             [] OTHER -> IF a.n > 0 THEN 1 ELSE IF a.n < 0 THEN -1 ELSE 0

\* IEEE comparison: false whenever an operand is nan.
FGt(a, b) ==
    /\ ~IsNaN(a) /\ ~IsNaN(b)
    /\ CASE a.t = "inf" -> b.t # "inf"
         [] a.t = "ninf" -> FALSE
         [] b.t = "inf" -> FALSE
         [] b.t = "ninf" -> TRUE
         [] OTHER -> a.n * b.d > b.n * a.d
FGe(a, b) ==
    /\ ~IsNaN(a) /\ ~IsNaN(b)
    /\ (a = b \/ FGt(a, b))

\* numpy's float division: x/0 is +-inf, 0/0 is nan, nothing is raised.
FDiv(a, b) ==
    CASE IsNaN(a) \/ IsNaN(b) -> NaN
      [] IsInf(a) /\ IsInf(b) -> NaN
      [] IsInf(a) -> IF Sign(a) * (IF Sign(b) < 0 THEN -1 ELSE 1) > 0
                     THEN PosInf ELSE NegInf
      [] IsInf(b) -> Zero
      [] b.n = 0 -> IF a.n > 0 THEN PosInf
                    ELSE IF a.n < 0 THEN NegInf ELSE NaN
      [] OTHER -> Rat(a.n * b.d, a.d * b.n)

FMul(a, b) ==
    CASE IsNaN(a) \/ IsNaN(b) -> NaN
      [] IsInf(a) \/ IsInf(b) ->
            IF Sign(a) * Sign(b) > 0 THEN PosInf
            ELSE IF Sign(a) * Sign(b) < 0 THEN NegInf ELSE NaN
      [] OTHER -> Rat(a.n * b.n, a.d * b.d)

FAdd(a, b) ==
    CASE IsNaN(a) \/ IsNaN(b) -> NaN
      [] IsInf(a) /\ IsInf(b) -> IF a = b THEN a ELSE NaN
      [] IsInf(a) -> a
      [] IsInf(b) -> b
      [] OTHER -> Rat(a.n * b.d + b.n * a.d, a.d * b.d)

FSub(a, b) == FAdd(a, FMul(b, Num(-1)))

\* Series.fillna(0): only nan is replaced, infinities stay.
FillNa0(a) == IF IsNaN(a) THEN Zero ELSE a

\* ------------------------------------------------------- column reductions
RECURSIVE SumCells(_)
SumCells(cells) ==
    IF cells = << >> THEN 0
    ELSE (IF IsNA(Head(cells)) THEN 0 ELSE Val(Head(cells)))
         + SumCells(Tail(cells))

RECURSIVE CountCells(_)
CountCells(cells) ==
    IF cells = << >> THEN 0
    ELSE (IF IsNA(Head(cells)) THEN 0 ELSE 1) + CountCells(Tail(cells))

Column(rows, c) == [ i \in 1..Len(rows) |-> rows[i][c] ]

\* Series.sum(): missing values are skipped, the empty sum is 0.
SeriesSum(cells) == Num(SumCells(cells))

\* A mean that counts the missing values as rows of the group.
MeanOverAllRows(cells) ==
    IF Len(cells) = 0 THEN NaN ELSE Rat(SumCells(cells), Len(cells))

\* Series.mean(): missing values are skipped, the mean of nothing is nan.
SeriesMean(cells) ==
    IF CountCells(cells) = 0 THEN NaN
    ELSE Rat(SumCells(cells), CountCells(cells))


\* ------------------------------------------------------------------ tables
\* The optional columns of the input file.
AllCols ==
    { "store_nbr", "family", "sales", "onpromotion", "transactions", "year",
      "month", "week", "day_of_week", "state", "holiday_type" }

\* A frame is [cols, rows]: the columns it has and its rows.  A row carries
\* every field; a field whose column is not in cols is never read.
NoFrame == [cols |-> {}, rows |-> << >>]

Has(d, c) == c \in d.cols

\* df[df[c] == v]
RowsWhere(rows, c, v) == SelectSeq(rows, LAMBDA r : r[c] = Some(v))

\* df[c].dropna().unique()
Distinct(rows, c) == { Val(rows[i][c]) : i \in { j \in 1..Len(rows) : NotNA(rows[j][c]) } }

\* df[c].nunique()
NUnique(rows, c) == Cardinality(Distinct(rows, c))

\* The flag that takes a missing onpromotion as promoted.
PromoOrUnknown(r) == IsNA(r.onpromotion) \/ Val(r.onpromotion) > 0

\* df[df["onpromotion"] > 0]: a missing onpromotion compares false.
IsPromo(r) == NotNA(r.onpromotion) /\ Val(r.onpromotion) > 0
PromoRows(rows) == SelectSeq(rows, IsPromo)

\* groupby(c, as_index=False).agg(sales=("sales", "mean")): one row per
\* non-missing key, keys in ascending order (groupby sorts its keys).
GroupMean(rows, c, keys) ==
    [ i \in 1..Len(keys) |->
        [key |-> keys[i],
         val |-> SeriesMean(Column(RowsWhere(rows, c, keys[i]), "sales"))] ]

\* groupby(c, as_index=False).agg(x=(v, "sum"))
GroupSum(rows, c, keys, v) ==
    [ i \in 1..Len(keys) |->
        [key |-> keys[i],
         val |-> SeriesSum(Column(RowsWhere(rows, c, keys[i]), v))] ]

IntKeys(rows, c) == SortedInts(Distinct(rows, c))
StrKeys(rows, c) == SortedStrs(Distinct(rows, c))

\* sort_values(by, ascending=False) on the rows whose value is not nan:
\* a later row goes after the rows that compare >= to it, so equal values
\* keep their order (numpy sorts fewer than 17 elements by insertion).
RECURSIVE InsertDesc(_, _)
InsertDesc(sorted, r) ==
    IF sorted = << >> THEN << r >>
    ELSE IF FGe(Head(sorted).val, r.val)
         THEN << Head(sorted) >> \o InsertDesc(Tail(sorted), r)
         ELSE << r >> \o sorted

RECURSIVE SortNumDesc(_)
SortNumDesc(t) ==
    IF Len(t) = 0 THEN << >>
    ELSE InsertDesc(SortNumDesc(SubSeq(t, 1, Len(t) - 1)), t[Len(t)])

\* sort_values(by, ascending=False): nan values go last (na_position).
SortDesc(t) ==
    SortNumDesc(SelectSeq(t, LAMBDA r : ~IsNaN(r.val)))
        \o SelectSeq(t, LAMBDA r : IsNaN(r.val))

\* sort_values(key column) of a table whose keys are integers.
SortByIntKey(t) ==
    LET keys == SortedInts({ t[i].key : i \in 1..Len(t) })
    IN  [ i \in 1..Len(keys) |-> CHOOSE r \in SeqRange(t) : r.key = keys[i] ]

\* The length of every "top" table.
TopN == 10

\* head(11): one row too many.
Head11(t) == SubSeq(t, 1, IF Len(t) < TopN + 1 THEN Len(t) ELSE TopN + 1)

\* DataFrame.head(10)
Head10(t) == SubSeq(t, 1, IF Len(t) < TopN THEN Len(t) ELSE TopN)

Keys(t) == [ i \in 1..Len(t) |-> t[i].key ]

\* -------------------------------------------------- agregados_pestana_1
top_productos(rows) ==
    Head10(SortDesc(GroupMean(rows, "family", StrKeys(rows, "family"))))

ventas_por_tienda(rows) ==
    SortDesc(GroupMean(rows, "store_nbr", IntKeys(rows, "store_nbr")))

top_tiendas_promo(rows) ==
    LET df_promo == PromoRows(rows)
    IN  Head10(SortDesc(GroupMean(df_promo, "store_nbr",
                                  IntKeys(df_promo, "store_nbr"))))

\* The grouping without sort_values: rows in the order of the keys.
MediaPorDiaSinOrdenar(rows) ==
    GroupMean(rows, "day_of_week", StrKeys(rows, "day_of_week"))

media_por_dia(rows) ==
    SortDesc(GroupMean(rows, "day_of_week", StrKeys(rows, "day_of_week")))

media_por_semana(rows) ==
    SortByIntKey(GroupMean(rows, "week", IntKeys(rows, "week")))

media_por_mes(rows) ==
    SortByIntKey(GroupMean(rows, "month", IntKeys(rows, "month")))

\* The columns agregados_pestana_1 reads; none is checked for presence.
Aggs1Columns ==
    { "family", "sales", "store_nbr", "onpromotion", "day_of_week", "week",
      "month" }

agregados_pestana_1(rows) ==
    [ top_productos |-> top_productos(rows),
      ventas_por_tienda |-> ventas_por_tienda(rows),
      top_tiendas_promo |-> top_tiendas_promo(rows),
      media_por_dia |-> media_por_dia(rows),
      media_por_semana |-> media_por_semana(rows),
      media_por_mes |-> media_por_mes(rows) ]

NoAggs1 ==
    [ top_productos |-> << >>, ventas_por_tienda |-> << >>,
      top_tiendas_promo |-> << >>, media_por_dia |-> << >>,
      media_por_semana |-> << >>, media_por_mes |-> << >> ]

\* --------------------------------------------------- weekday ordering
orden_en ==
    << "Monday", "Tuesday", "Wednesday", "Thursday", "Friday", "Saturday",
       "Sunday" >>
orden_es ==
    << "Lunes", "Martes", "Miércoles", "Jueves", "Viernes", "Sábado",
       "Domingo" >>

\* The choice without the Spanish week.
OrdenSinEspanol(dias) ==
    IF dias \subseteq SeqRange(orden_en) THEN orden_en ELSE SortedStrs(dias)

\* The category order chosen for the labels dias.
orden(dias) ==
    IF dias \subseteq SeqRange(orden_en) THEN orden_en
    ELSE IF dias \subseteq SeqRange(orden_es) THEN orden_es
    ELSE SortedStrs(dias)

PosIn(s, x) == CHOOSE i \in 1..Len(s) : s[i] = x

\* pd.Categorical(labels, categories=orden, ordered=True), then
\* sort_values("day_of_week"): rows in the order of their category.
SortByCategory(t, cats) ==
    LET present == { t[i].key : i \in 1..Len(t) }
        ks == SelectSeq(cats, LAMBDA c : c \in present)
    IN  [ i \in 1..Len(ks) |-> CHOOSE r \in SeqRange(t) : r.key = ks[i] ]

tmp_dia(media) == SortByCategory(media, orden({ media[i].key : i \in 1..Len(media) }))


\* ----------------------------------------------------- tab 2: per store
tiendas(rows) == IntKeys(rows, "store_nbr")

ventas_totales_todas(rows) ==
    SortDesc(GroupSum(rows, "store_nbr", IntKeys(rows, "store_nbr"), "sales"))

\* list.index(x) if x in list else 0 (positions counted from 0).
IndexOrZero(list, x) ==
    IF x \in SeqRange(list) THEN PosIn(list, x) - 1 ELSE 0

\* The yearly table with the mean in place of the sum.
VentasPorAnoMedia(rows) ==
    SortByIntKey(GroupMean(rows, "year", IntKeys(rows, "year")))

ventas_por_ano(rows) ==
    SortByIntKey(GroupSum(rows, "year", IntKeys(rows, "year"), "sales"))

productos_totales(d) == IF Has(d, "family") THEN NUnique(d.rows, "family") ELSE 0

\* The count without the onpromotion > 0 filter.
ProductosSinFiltro(d) ==
    IF Has(d, "onpromotion") /\ Has(d, "family") THEN NUnique(d.rows, "family") ELSE 0

productos_promo(d) ==
    IF Has(d, "onpromotion") /\ Has(d, "family")
    THEN NUnique(PromoRows(d.rows), "family")
    ELSE 0

\* ----------------------------------------------------- tab 3: per state
estados(rows) == StrKeys(rows, "state")

ventas_por_estado(rows) ==
    SortDesc(GroupSum(rows, "state", StrKeys(rows, "state"), "sales"))

\* pd.to_numeric(df_estado["transactions"], errors="coerce").fillna(0)
FillTransactions(rows) ==
    [ i \in 1..Len(rows) |->
        IF IsNA(rows[i].transactions)
        THEN [rows[i] EXCEPT !.transactions = Some(0)]
        ELSE rows[i] ]

trans_por_ano(rows) ==
    SortByIntKey(GroupSum(rows, "year", IntKeys(rows, "year"), "transactions"))

\* (ranking["sales"] / total_estado * 100).fillna(0) if total_estado > 0 else 0
PctVentasEstado(sales, total_estado) ==
    IF FGt(total_estado, Zero)
    THEN FillNa0(FMul(FDiv(sales, total_estado), Num(100)))
    ELSE Zero

ranking_tiendas(d) ==
    LET rk == Head10(SortDesc(GroupSum(d.rows, "store_nbr",
                                       IntKeys(d.rows, "store_nbr"), "sales")))
        total_estado == IF Has(d, "sales")
                        THEN SeriesSum(Column(d.rows, "sales")) ELSE Zero
    IN  [ i \in 1..Len(rk) |->
            [key |-> rk[i].key, val |-> rk[i].val,
             pct |-> PctVentasEstado(rk[i].val, total_estado)] ]

ventas_por_tienda_estado(rows) ==
    SortDesc(GroupSum(rows, "store_nbr", IntKeys(rows, "store_nbr"), "sales"))

top_productos_tienda(rows, tienda_lider) ==
    LET df_tienda_lider == RowsWhere(rows, "store_nbr", tienda_lider)
    IN  Head10(SortDesc(GroupSum(df_tienda_lider, "family",
                                 StrKeys(df_tienda_lider, "family"), "sales")))

\* ------------------------------------------- tab 4: promotional insights
\* df_aux["en_promo"] = df_aux["onpromotion"] > 0
WithEnPromo(d) ==
    [ cols |-> d.cols \cup {"en_promo"},
      rows |-> [ i \in 1..Len(d.rows) |->
                   [d.rows[i] EXCEPT !.en_promo = Some(IsPromo(d.rows[i]))] ] ]

EnPromo(r) == r.en_promo = Some(TRUE)
NoPromo(r) == r.en_promo = Some(FALSE)

anos(d) == IF Has(d, "year") THEN IntKeys(d.rows, "year") ELSE << >>

ventas_tot(d) ==
    IF Has(d, "sales") THEN SeriesSum(Column(d.rows, "sales")) ELSE Zero

ventas_promo(d) ==
    IF Has(d, "sales")
    THEN SeriesSum(Column(SelectSeq(d.rows, EnPromo), "sales")) ELSE Zero

\* (ventas_promo / ventas_tot * 100) if ventas_tot > 0 else 0
pct_promo(vp, vt) ==
    IF FGt(vt, Zero) THEN FMul(FDiv(vp, vt), Num(100)) ELSE Zero

\* groupby(["month", "en_promo"]).agg(sales=("sales", "sum")).sort_values(
\* "month"): one row per observed (month, flag) pair, False before True.
promo_mes_year(rows) ==
    LET ms == IntKeys(rows, "month")
        one(m, flag) ==
            LET g == SelectSeq(rows, LAMBDA r :
                         r.month = Some(m) /\ r.en_promo = Some(flag))
            IN  IF g = << >> THEN << >>
                ELSE << [month |-> m, en_promo |-> flag,
                         val |-> SeriesSum(Column(g, "sales"))] >>
        RECURSIVE all(_)
        all(i) == IF i > Len(ms) THEN << >>
                  ELSE one(ms[i], FALSE) \o one(ms[i], TRUE) \o all(i + 1)
    IN  all(1)

\* pivot_table(index="month", columns="Tipo", values="sales",
\* aggfunc="sum").fillna(0), the two columns added as 0 when absent, and
\* %_promo = (con / (con + sin) * 100).fillna(0)
PctShare(con, sin) == FillNa0(FMul(FDiv(con, FAdd(con, sin)), Num(100)))

pivot_share(pm) ==
    LET ms == SortedInts({ pm[i].month : i \in 1..Len(pm) })
        cell(m, flag) ==
            LET hit == SelectSeq(pm, LAMBDA r : r.month = m /\ r.en_promo = flag)
            IN  IF hit = << >> THEN Zero ELSE hit[1].val
    IN  [ i \in 1..Len(ms) |->
            LET con == cell(ms[i], TRUE)
                sin == cell(ms[i], FALSE)
            IN  [month |-> ms[i], con |-> con, sin |-> sin,
                 pct |-> PctShare(con, sin)] ]

\* ventas_family.merge(ventas_family_promo, how="left").fillna(0) and
\* %_promo = (ventas_promo / ventas_totales * 100).fillna(0)
PctFamily(vp, vt) == FillNa0(FMul(FDiv(vp, vt), Num(100)))

family_merge(rows) ==
    LET fams == StrKeys(rows, "family")
        promo == SelectSeq(rows, EnPromo)
        pfams == Distinct(promo, "family")
        vt(f) == SeriesSum(Column(RowsWhere(rows, "family", f), "sales"))
        vp(f) == IF f \in pfams
                 THEN SeriesSum(Column(RowsWhere(promo, "family", f), "sales"))
                 ELSE Zero
    IN  [ i \in 1..Len(fams) |->
            LET t == vt(fams[i])
                p == vp(fams[i])
            IN  [key |-> fams[i], ventas_totales |-> t, ventas_promo |-> p,
                 val |-> PctFamily(p, t)] ]

\* family_merge.sort_values("%_promo", ascending=False).head(10)
top_family_promo(fm) == Head10(SortDesc(fm))

\* The uplift without the mask: the ratio for every family.
UpliftUnmasked(mean_p, mean_np) == FSub(FDiv(mean_p, mean_np), Num(1))

\* uplift.loc[mask, "uplift"] = mean_sales_promo / mean_sales_no_promo - 1
\* where mask = mean_sales_no_promo > 0; 0.0 elsewhere.
UpliftOf(mean_p, mean_np) ==
    IF FGt(mean_np, Zero) THEN FSub(FDiv(mean_p, mean_np), Num(1)) ELSE Zero

\* mean_np.merge(mean_p, on="family", how="outer").fillna(0)
uplift(rows) ==
    LET df_p == SelectSeq(rows, EnPromo)
        df_np == SelectSeq(rows, NoPromo)
        fams_p == Distinct(df_p, "family")
        fams_np == Distinct(df_np, "family")
        fams == SortedStrs(fams_p \cup fams_np)
        mp(f) == IF f \in fams_p
                 THEN FillNa0(SeriesMean(Column(RowsWhere(df_p, "family", f), "sales")))
                 ELSE Zero
        mnp(f) == IF f \in fams_np
                  THEN FillNa0(SeriesMean(Column(RowsWhere(df_np, "family", f), "sales")))
                  ELSE Zero
    IN  [ i \in 1..Len(fams) |->
            LET a == mp(fams[i])
                b == mnp(fams[i])
            IN  [key |-> fams[i], mean_sales_no_promo |-> b,
                 mean_sales_promo |-> a, val |-> UpliftOf(a, b)] ]

\* uplift.sort_values("uplift", ascending=False).head(10)
top_uplift(up) == Head10(SortDesc(up))

\* str.strip() on the strings of the model.
Strip(s) == IF s = " " THEN "" ELSE s

\* df_h["es_festivo"] = holiday_type.notna() & (holiday_type.str.strip() != "")
IsFestivo(r) == NotNA(r.holiday_type) /\ Strip(Val(r.holiday_type)) # ""

WithEsFestivo(d) ==
    [ cols |-> d.cols \cup {"es_festivo"},
      rows |-> [ i \in 1..Len(d.rows) |->
                   [d.rows[i] EXCEPT !.es_festivo = Some(IsFestivo(d.rows[i]))] ] ]

EsFestivo(r) == r.es_festivo = Some(TRUE)
NoFestivo(r) == r.es_festivo = Some(FALSE)

\* df_h[mask]["sales"].mean() if mask.any() else 0
ventas_festivo(rows) ==
    IF SelectSeq(rows, EsFestivo) # << >>
    THEN SeriesMean(Column(SelectSeq(rows, EsFestivo), "sales")) ELSE Zero

ventas_no_festivo(rows) ==
    IF SelectSeq(rows, NoFestivo) # << >>
    THEN SeriesMean(Column(SelectSeq(rows, NoFestivo), "sales")) ELSE Zero

top_holiday(rows) ==
    LET h == SelectSeq(rows, EsFestivo)
    IN  Head10(SortDesc(GroupMean(h, "holiday_type", StrKeys(h, "holiday_type"))))

Metricas == << "Media de ventas", "Ventas totales" >>

\* groupby(["month", "day_of_week"]).agg(sales=("sales", mean or sum)), the
\* day made categorical, sort_values(["month", "day_of_week"]).
heat(rows, metrica) ==
    LET ms == IntKeys(rows, "month")
        both == SelectSeq(rows, LAMBDA r : NotNA(r.month) /\ NotNA(r.day_of_week))
        cats == orden(Distinct(both, "day_of_week"))
        one(m) ==
            LET g == RowsWhere(both, "month", m)
                ds == SelectSeq(cats, LAMBDA c : c \in Distinct(g, "day_of_week"))
            IN  [ i \in 1..Len(ds) |->
                    [month |-> m, key |-> ds[i],
                     val |-> IF metrica = "Media de ventas"
                             THEN SeriesMean(Column(RowsWhere(g, "day_of_week", ds[i]), "sales"))
                             ELSE SeriesSum(Column(RowsWhere(g, "day_of_week", ds[i]), "sales"))] ]
        RECURSIVE all(_)
        all(i) == IF i > Len(ms) THEN << >> ELSE one(ms[i]) \o all(i + 1)
    IN  all(1)

\* heat.pivot(index="day_of_week", ...): the index holds the labels present,
\* in category order.
pivot_index(h) ==
    LET dias == { h[i].key : i \in 1..Len(h) }
    IN  SelectSeq(orden(dias), LAMBDA c : c \in dias)


\* ------------------------------------------------------------------- state
VARIABLES
    pc,       \* the section of the script that runs next
    runs,     \* how many runs of the script have started
    frames,   \* the data frames: the canonical df and the working copies
    sel,      \* st.session_state: the value of each selection widget
    opts,     \* the options of the widgets rendered in this run
    aggs1,    \* the result of agregados_pestana_1(df)
    t1, t2, t3, t4,   \* what each tab computed in this run
    status,   \* per aggregation: pending, ok, skipped, defaulted or error
    view,     \* per tab: pending, rendered or failed
    error     \* the exception that ended the run, "" if none

vars == << pc, runs, frames, sel, opts, aggs1, t1, t2, t3, t4, status, view,
           error >>

FrameNames == { "df", "df_tienda", "df_estado", "df_aux", "df_year", "df_h" }

\* x = src: no copy is made, the variable x refers to the object of src.
AliasOf(x, src) == src

\* x = src[...].copy(): the variable x refers to an object of its own.
CopyOf(x, src) == x

Aggregations ==
    { "agregados_pestana_1", "ventas_por_ano", "productos", "trans_por_ano",
      "ranking_tiendas", "producto_lider", "pct_promo", "promo_mes_year",
      "top_family_promo", "uplift", "holiday", "heat" }

Tabs == { "tab1", "tab2", "tab3", "tab4" }

\* The aggregations of each tab.
AggsOf(tab) ==
    CASE tab = "tab1" -> { "agregados_pestana_1" }
      [] tab = "tab2" -> { "ventas_por_ano", "productos" }
      [] tab = "tab3" -> { "trans_por_ano", "ranking_tiendas", "producto_lider" }
      [] tab = "tab4" -> { "pct_promo", "promo_mes_year", "top_family_promo",
                           "uplift", "holiday", "heat" }

NoSel == [tienda |-> Missing, estado |-> Missing, ano |-> Missing,
          metrica |-> Missing]
NoOpts == [tienda |-> << >>, estado |-> << >>, ano |-> << >>,
           metrica |-> << >>]

T1Init == [tmp_dia |-> << >>]
T2Init ==
    [tiendas |-> << >>, index_default |-> 0, tienda_sel |-> Missing,
     ventas_por_ano |-> << >>, productos_totales |-> 0, productos_promo |-> 0]
T3Init ==
    [estados |-> << >>, index_default |-> 0, estado_sel |-> Missing,
     trans_por_ano |-> << >>, ranking_tiendas |-> << >>,
     tienda_lider |-> Missing, top_productos_tienda |-> << >>,
     producto_lider |-> Missing]
T4Init ==
    [anos |-> << >>, ano_sel |-> Missing, ventas_tot |-> Zero,
     ventas_promo |-> Zero, pct_promo |-> Zero, promo_mes_year |-> << >>,
     pivot_share |-> << >>, family_merge |-> << >>,
     top_family_promo |-> << >>, uplift |-> << >>, top_uplift |-> << >>,
     ventas_festivo |-> Zero, ventas_no_festivo |-> Zero,
     top_holiday |-> << >>, metrica |-> Missing, heat |-> << >>,
     pivot_index |-> << >>]

\* The state in which a run of the script starts on the loaded table d.
Start(d) ==
    /\ pc = "aggs1"
    /\ runs = 1
    /\ frames = [ f \in FrameNames |-> IF f = "df" THEN d ELSE NoFrame ]
    /\ sel = NoSel
    /\ opts = NoOpts
    /\ aggs1 = NoAggs1
    /\ t1 = T1Init /\ t2 = T2Init /\ t3 = T3Init /\ t4 = T4Init
    /\ status = [ a \in Aggregations |-> "pending" ]
    /\ view = [ t \in Tabs |-> "pending" ]
    /\ error = ""

\* An uncaught exception: the script stops where it is.
Raise(exc, tab, failed, done) ==
    /\ pc' = "crashed"
    /\ error' = exc
    /\ status' = [ a \in Aggregations |->
                     IF a \in failed THEN "error"
                     ELSE IF a \in DOMAIN done THEN done[a]
                     ELSE status[a] ]
    /\ view' = IF tab \in Tabs THEN [view EXCEPT ![tab] = "failed"] ELSE view

Mark(done) ==
    [ a \in Aggregations |-> IF a \in DOMAIN done THEN done[a] ELSE status[a] ]

\* The widget's value: the session's if it has one, else the default.
Widget(w, default) == IF sel[w] # Missing THEN Val(sel[w]) ELSE default

\* ------------------------------------------------------------------ script
\* aggs1 = agregados_pestana_1(df)
Aggs1 ==
    /\ pc = "aggs1"
    /\ IF Aggs1Columns \subseteq frames["df"].cols
       THEN /\ aggs1' = agregados_pestana_1(frames["df"].rows)
            /\ status' = Mark([agregados_pestana_1 |-> "ok"])
            /\ pc' = "tab1"
            /\ UNCHANGED << view, error >>
       ELSE /\ Raise("KeyError", "none", {"agregados_pestana_1"}, << >>)
            /\ UNCHANGED aggs1
    /\ UNCHANGED << runs, frames, sel, opts, t1, t2, t3, t4 >>

\* with tab1: the charts of the global aggregates.
Tab1 ==
    /\ pc = "tab1"
    /\ t1' = [tmp_dia |-> tmp_dia(aggs1.media_por_dia)]
    /\ view' = [view EXCEPT !["tab1"] = "rendered"]
    /\ pc' = "tab2"
    /\ UNCHANGED << runs, frames, sel, opts, aggs1, t2, t3, t4, status, error >>

\* with tab2: the selected store.
Tab2 ==
    /\ pc = "tab2"
    /\ LET df == frames["df"]
           ts == tiendas(df.rows)
           vt == ventas_totales_todas(df.rows)
       IN
       IF ~Has(df, "store_nbr")
       THEN /\ status' = Mark([ventas_por_ano |-> "skipped", productos |-> "skipped"])
            /\ view' = [view EXCEPT !["tab2"] = "rendered"]
            /\ pc' = "tab3"
            /\ UNCHANGED << frames, sel, opts, t2, error >>
       ELSE IF ~Has(df, "sales")
       THEN /\ Raise("KeyError", "tab2", AggsOf("tab2"), << >>)
            /\ UNCHANGED << frames, sel, opts, t2 >>
       ELSE IF vt = << >> /\ ts = << >>
       THEN /\ Raise("IndexError", "tab2", AggsOf("tab2"), << >>)
            /\ UNCHANGED << frames, sel, opts, t2 >>
       ELSE
         LET tienda_top == IF vt # << >> THEN vt[1].key ELSE ts[1]
             index_default == IndexOrZero(ts, tienda_top)
             tienda_sel == Widget("tienda", ts[index_default + 1])
             df_tienda == [cols |-> df.cols,
                           rows |-> RowsWhere(df.rows, "store_nbr", tienda_sel)]
         IN
         /\ frames' = [frames EXCEPT ![CopyOf("df_tienda", "df")] = df_tienda]
         /\ sel' = [sel EXCEPT !.tienda = Some(tienda_sel)]
         /\ opts' = [opts EXCEPT !.tienda = ts]
         /\ t2' = [tiendas |-> ts, index_default |-> index_default,
                   tienda_sel |-> Some(tienda_sel),
                   ventas_por_ano |-> IF Has(df_tienda, "year")
                                      THEN ventas_por_ano(df_tienda.rows)
                                      ELSE << >>,
                   productos_totales |-> productos_totales(df_tienda),
                   productos_promo |-> productos_promo(df_tienda)]
         /\ status' = Mark(
               [ventas_por_ano |-> IF Has(df_tienda, "year") THEN "ok" ELSE "skipped",
                productos |-> IF Has(df_tienda, "family") /\ Has(df_tienda, "onpromotion")
                              THEN "ok" ELSE "defaulted"])
         /\ view' = [view EXCEPT !["tab2"] = "rendered"]
         /\ pc' = "tab3"
         /\ error' = error
    /\ UNCHANGED << runs, aggs1, t1, t3, t4 >>

\* with tab3: the selected state.
Tab3 ==
    /\ pc = "tab3"
    /\ LET df == frames["df"]
           es == estados(df.rows)
           ve == ventas_por_estado(df.rows)
       IN
       IF ~Has(df, "state")
       THEN /\ status' = Mark([trans_por_ano |-> "skipped",
                               ranking_tiendas |-> "skipped",
                               producto_lider |-> "skipped"])
            /\ view' = [view EXCEPT !["tab3"] = "rendered"]
            /\ pc' = "tab4"
            /\ UNCHANGED << frames, sel, opts, t3, error >>
       ELSE IF ~Has(df, "sales")
       THEN /\ Raise("KeyError", "tab3", AggsOf("tab3"), << >>)
            /\ UNCHANGED << frames, sel, opts, t3 >>
       ELSE IF ve = << >> /\ es = << >>
       THEN /\ Raise("IndexError", "tab3", AggsOf("tab3"), << >>)
            /\ UNCHANGED << frames, sel, opts, t3 >>
       ELSE
         LET estado_top == IF ve # << >> THEN ve[1].key ELSE es[1]
             index_default == IndexOrZero(es, estado_top)
             estado_sel == Widget("estado", es[index_default + 1])
             obj == CopyOf("df_estado", "df")
             filtered == [cols |-> df.cols,
                          rows |-> RowsWhere(df.rows, "state", estado_sel)]
             has_trans == Has(filtered, "transactions") /\ Has(filtered, "year")
             \* df_estado["transactions"] = ... .fillna(0)
             df_estado == IF has_trans
                          THEN [filtered EXCEPT !.rows = FillTransactions(@)]
                          ELSE filtered
             has_store == Has(df_estado, "store_nbr")
             has_lider == Has(df_estado, "store_nbr") /\ Has(df_estado, "family")
             vpte == IF has_lider THEN ventas_por_tienda_estado(df_estado.rows)
                     ELSE << >>
             tienda_lider == IF vpte # << >> THEN Some(vpte[1].key) ELSE Missing
             tpt == IF vpte # << >>
                    THEN top_productos_tienda(df_estado.rows, vpte[1].key)
                    ELSE << >>
             done == [trans_por_ano |-> IF has_trans THEN "ok" ELSE "skipped",
                      ranking_tiendas |-> IF has_store THEN "ok" ELSE "skipped"]
             out == [estados |-> es, index_default |-> index_default,
                     estado_sel |-> Some(estado_sel),
                     trans_por_ano |-> IF has_trans
                                       THEN trans_por_ano(df_estado.rows)
                                       ELSE << >>,
                     ranking_tiendas |-> IF has_store
                                         THEN ranking_tiendas(df_estado)
                                         ELSE << >>,
                     tienda_lider |-> tienda_lider,
                     top_productos_tienda |-> tpt,
                     producto_lider |-> IF tpt # << >> THEN Some(tpt[1].key)
                                        ELSE Missing]
         IN
         /\ frames' = [frames EXCEPT ![obj] = df_estado]
         /\ sel' = [sel EXCEPT !.estado = Some(estado_sel)]
         /\ opts' = [opts EXCEPT !.estado = es]
         /\ t3' = out
         /\ IF vpte # << >> /\ tpt = << >>
            THEN \* top_productos_tienda.iloc[0] on an empty table
                 Raise("IndexError", "tab3", {"producto_lider"}, done)
            ELSE /\ status' = Mark(done @@
                       [producto_lider |-> IF vpte # << >> THEN "ok" ELSE "skipped"])
                 /\ view' = [view EXCEPT !["tab3"] = "rendered"]
                 /\ pc' = "tab4"
                 /\ error' = error
    /\ UNCHANGED << runs, aggs1, t1, t2, t4 >>

\* with tab4: promotions, uplift, holidays and the heatmap of one year.
Tab4 ==
    /\ pc = "tab4"
    /\ LET df == frames["df"]
           all_skipped == [ a \in AggsOf("tab4") |-> "skipped" ]
       IN
       IF ~Has(df, "onpromotion")
       THEN /\ status' = Mark(all_skipped)
            /\ view' = [view EXCEPT !["tab4"] = "rendered"]
            /\ pc' = "done"
            /\ UNCHANGED << frames, sel, opts, t4, error >>
       ELSE
         LET aux_obj == CopyOf("df_aux", "df")
             df_aux == WithEnPromo(df)
             as == anos(df_aux)
         IN
         IF as = << >>
         THEN /\ frames' = [frames EXCEPT ![aux_obj] = df_aux]
              /\ status' = Mark(all_skipped)
              /\ view' = [view EXCEPT !["tab4"] = "rendered"]
              /\ pc' = "done"
              /\ UNCHANGED << sel, opts, t4, error >>
         ELSE
           LET ano_sel == Widget("ano", as[Len(as)])
               year_obj == CopyOf("df_year", "df_aux")
               df_year == [cols |-> df_aux.cols,
                           rows |-> RowsWhere(df_aux.rows, "year", ano_sel)]
               vt == ventas_tot(df_year)
               vp == ventas_promo(df_year)
               has_sales == Has(df_year, "sales")
               kpis == [t4 EXCEPT !.anos = as, !.ano_sel = Some(ano_sel),
                           !.ventas_tot = vt, !.ventas_promo = vp,
                           !.pct_promo = pct_promo(vp, vt)]
               kpi_done == [pct_promo |-> IF has_sales THEN "ok" ELSE "defaulted"]
           IN
           IF ~Has(df_year, "month") \/ ~has_sales
           THEN \* groupby(["month", "en_promo"]).agg(sales=("sales", "sum"))
                /\ frames' = [frames EXCEPT ![aux_obj] = df_aux,
                                            ![year_obj] = df_year]
                /\ sel' = [sel EXCEPT !.ano = Some(ano_sel)]
                /\ opts' = [opts EXCEPT !.ano = as]
                /\ t4' = kpis
                /\ Raise("KeyError", "tab4",
                         AggsOf("tab4") \ {"pct_promo"}, kpi_done)
           ELSE
             LET has_fam == Has(df_year, "family") /\ has_sales
                 has_hol == Has(df_year, "holiday_type") /\ has_sales
                 has_heat == Has(df_year, "month") /\ Has(df_year, "day_of_week")
                             /\ has_sales
                 h_obj == CopyOf("df_h", "df_year")
                 df_h == WithEsFestivo(df_year)
                 metrica == Widget("metrica", Metricas[1])
                 pm == promo_mes_year(df_year.rows)
                 fm == IF has_fam THEN family_merge(df_year.rows) ELSE << >>
                 up == IF has_fam THEN uplift(df_year.rows) ELSE << >>
                 ht == IF has_heat THEN heat(df_year.rows, metrica) ELSE << >>
                 flag(b) == IF b THEN "ok" ELSE "skipped"
             IN
             /\ frames' = IF has_hol
                          THEN [frames EXCEPT ![aux_obj] = df_aux,
                                              ![year_obj] = df_year,
                                              ![h_obj] = df_h]
                          ELSE [frames EXCEPT ![aux_obj] = df_aux,
                                              ![year_obj] = df_year]
             /\ sel' = [sel EXCEPT !.ano = Some(ano_sel),
                                   !.metrica = IF has_heat THEN Some(metrica) ELSE @]
             /\ opts' = [opts EXCEPT !.ano = as,
                                     !.metrica = IF has_heat THEN Metricas ELSE @]
             /\ t4' = [kpis EXCEPT
                         !.promo_mes_year = pm,
                         !.pivot_share = pivot_share(pm),
                         !.family_merge = fm,
                         !.top_family_promo = top_family_promo(fm),
                         !.uplift = up,
                         !.top_uplift = top_uplift(up),
                         !.ventas_festivo = IF has_hol THEN ventas_festivo(df_h.rows) ELSE Zero,
                         !.ventas_no_festivo = IF has_hol THEN ventas_no_festivo(df_h.rows) ELSE Zero,
                         !.top_holiday = IF has_hol THEN top_holiday(df_h.rows) ELSE << >>,
                         !.metrica = IF has_heat THEN Some(metrica) ELSE Missing,
                         !.heat = ht,
                         !.pivot_index = pivot_index(ht)]
             /\ status' = Mark(kpi_done @@
                   [promo_mes_year |-> "ok",
                    top_family_promo |-> flag(has_fam),
                    uplift |-> flag(has_fam),
                    holiday |-> flag(has_hol),
                    heat |-> flag(has_heat)])
             /\ view' = [view EXCEPT !["tab4"] = "rendered"]
             /\ pc' = "done"
             /\ error' = error
    /\ UNCHANGED << runs, aggs1, t1, t2, t3 >>

Widgets == { "tienda", "estado", "ano", "metrica" }

\* The user picks another option of a rendered widget: the script reruns
\* from the top with the session's selections.
Select ==
    /\ pc \in { "done", "crashed" }
    /\ runs < MaxRuns
    /\ \E w \in Widgets : \E i \in 1..Len(opts[w]) :
          /\ sel[w] # Some(opts[w][i])
          /\ sel' = [sel EXCEPT ![w] = Some(opts[w][i])]
    /\ runs' = runs + 1
    /\ pc' = "aggs1"
    /\ frames' = [ f \in FrameNames |-> IF f = "df" THEN frames["df"] ELSE NoFrame ]
    /\ opts' = NoOpts
    /\ aggs1' = NoAggs1
    /\ t1' = T1Init /\ t2' = T2Init /\ t3' = T3Init /\ t4' = T4Init
    /\ status' = [ a \in Aggregations |-> "pending" ]
    /\ view' = [ t \in Tabs |-> "pending" ]
    /\ error' = ""

Next == Aggs1 \/ Tab1 \/ Tab2 \/ Tab3 \/ Tab4 \/ Select

\* ------------------------------------------------------------ input tables
Row(store_nbr, family, sales, onpromotion, transactions, year, month, week, day_of_week, state, holiday_type) ==
    [ store_nbr |-> store_nbr, family |-> family, sales |-> sales,
      onpromotion |-> onpromotion, transactions |-> transactions,
      year |-> year, month |-> month, week |-> week,
      day_of_week |-> day_of_week, state |-> state,
      holiday_type |-> holiday_type, en_promo |-> Missing,
      es_festivo |-> Missing ]

\* All tables of at most n rows drawn from the set D.
RECURSIVE TablesOf(_, _)
TablesOf(D, n) ==
    IF n = 0 THEN { << >> }
    ELSE LET shorter == TablesOf(D, n - 1)
         IN  shorter \cup { Append(t, r) : t \in { u \in shorter : Len(u) = n - 1 }, r \in D }

\* The column sets a loaded file may have: at most MaxAbsent columns absent.
ColumnSets ==
    { AllCols \ absent : absent \in { a \in SUBSET AllCols : Cardinality(a) <= MaxAbsent } }

Loaded(cols, rows) == [cols |-> cols, rows |-> rows]

\* Rows of two stores in two states and two years, with missing keys.
RunRows ==
    { Row(Some(s), Some(StrOrder[2 + s]), Some(s), Some(s - 1), Missing,
          Some(2019 + s), Some(s), Some(s), Some(orden_en[s]),
          Some(StrOrder[33 + s]), Missing) : s \in 1..2 }
    \cup
    { Row(Some(1), Missing, Some(1), Some(1), Some(1), Some(2020), Some(1),
          Some(1), Some("Lunes"), Some("X"), Some("A")),
      Row(Some(2), Some("A"), Some(-1), Some(0), Some(1), Missing, Missing,
          Some(2), Missing, Missing, Some(" ")),
      Row(Missing, Some("B"), Missing, Missing, Some(2), Some(2021), Some(2),
          Missing, Some("Monday"), Some("Y"), Missing) }

Init ==
    \E cols \in ColumnSets, rows \in TablesOf(RunRows, MaxRows) :
        Start(Loaded(cols, rows))

Spec == Init /\ [][Next]_vars

\* One run of the script, with the default selections.
RunOnce == Aggs1 \/ Tab1 \/ Tab2 \/ Tab3 \/ Tab4

Letters ==
    << "A", "B", "C", "D", "E", "F", "G", "H", "I", "J", "K", "L", "M", "N",
       "O", "P" >>

\* The i-th of n rows that each start a group of their own: its own family
\* and holiday type, and its own store (shape 1) or store 1 (shape 2); the
\* pattern p sets the sales and the promotion of the rows.
FillRow(i, p, shape) ==
    Row(Some(IF shape = 1 THEN i ELSE 1),
        Some(Letters[i]),
        CASE p = 1 -> Some(i % 3)
          [] p = 2 -> IF i % 4 = 0 THEN Missing ELSE Some(i % 5)
          [] OTHER -> Some(1),
        CASE p = 1 -> Some(i % 2)
          [] p = 2 -> Some(1)
          [] OTHER -> Some((i + 1) % 2),
        Some(i), Some(2020), Some(1 + (i % 2)), Some(i),
        Some(orden_en[1 + (i % 7)]), Some("X"), Some(Letters[i]))

FillRows(n, p, shape) == [ i \in 1..n |-> FillRow(i, p, shape) ]

RankRows ==
    { Row(Some(1), Some("A"), Missing, Some(1), Some(1), Some(2020), Some(1),
          Some(1), Some("Monday"), Some("X"), Some("A")),
      Row(Some(1), Some("A"), Some(3), Some(0), Some(1), Some(2020), Some(1),
          Some(1), Some("Monday"), Some("X"), Missing),
      Row(Some(2), Some("B"), Some(0), Some(1), Some(1), Some(2020), Some(2),
          Some(1), Some("Sunday"), Some("X"), Some("B")),
      Row(Some(2), Some("B"), Some(-1), Some(0), Missing, Some(2020), Some(2),
          Some(2), Some("Sunday"), Some("X"), Some(" ")),
      Row(Some(1), Some("B"), Some(2), Some(1), Missing, Some(2020), Some(1),
          Some(2), Some("Friday"), Some("X"), Some("B")) }

InitRank ==
    \E n \in 0..MaxFill, p \in 1..3, shape \in 1..2,
       rows \in TablesOf(RankRows, MaxRows) :
        Start(Loaded(AllCols, FillRows(n, p, shape) \o rows))

SpecRank == InitRank /\ [][RunOnce]_vars

\* Rows of one year: two families (each with its store and its month),
\* promoted, not promoted or of unknown promotion, with negative, positive
\* and missing sales.
RatioRows ==
    { Row(Some(g), Some(Letters[g]), v, q, Some(1), Some(2020), Some(g),
          Some(1), Some("Monday"), Some("X"), Missing) :
        g \in 1..2,
        v \in { Missing, Some(-1), Some(1), Some(2) },
        q \in { Missing, Some(0), Some(1) } }

InitRatio ==
    \E rows \in TablesOf(RatioRows, MaxRows) : Start(Loaded(AllCols, rows))

SpecRatio == InitRatio /\ [][RunOnce]_vars

\* Day labels: English and Spanish weekday names and an abbreviation.
DiaLabels ==
    << "Monday", "Tuesday", "Sunday", "Lunes", "Martes", "Viernes", "Domingo",
       "Miércoles", "Mon" >>

\* One row per label of the set L, the labels in the order of DiaLabels; the
\* pattern p sets the sales of the rows, the months alternate.
DiaRows(L, p) ==
    LET ks == SelectSeq([ i \in 1..Len(DiaLabels) |-> i ],
                        LAMBDA i : DiaLabels[i] \in L)
    IN  [ j \in 1..Len(ks) |->
            Row(Some(1), Some("A"),
                CASE p = 1 -> Some(ks[j])
                  [] p = 2 -> Some(10 - ks[j])
                  [] OTHER -> IF ks[j] = 4 THEN Missing ELSE Some((ks[j] * 3) % 5),
                Some(ks[j] % 2), Some(1), Some(2020), Some(1 + (ks[j] % 2)),
                Some(1), Some(DiaLabels[ks[j]]), Some("X"), Missing) ]

InitDias ==
    \E L \in SUBSET SeqRange(DiaLabels), p \in 1..3 :
        Start(Loaded(AllCols, DiaRows(L, p)))

SpecDias == InitDias /\ [][Next]_vars

\* Rows of two families (each with its day) in two stores (each with its
\* week and month), promoted or not, with missing sales.
MeanRows ==
    { Row(Some(g2), Some(Letters[g1]), v, Some(q), Some(1), Some(2020),
          Some(g2), Some(g2 + 1), Some(orden_en[g1]), Some("X"), Missing) :
        g1 \in 1..2, g2 \in 1..2,
        v \in { Missing, Some(1), Some(2) },
        q \in 0..1 }

InitMean ==
    \E rows \in TablesOf(MeanRows, MaxRows) : Start(Loaded(AllCols, rows))

SpecMean == InitMean /\ [][RunOnce]_vars

\* Rows of two stores: families A, B or missing, promoted, not promoted or
\* of unknown promotion.
TiendaRows ==
    { Row(Some(s), f, Some(1), q, Some(1), Some(2020), Some(1), Some(1),
          Some("Monday"), Some("X"), Missing) :
        s \in 1..2,
        f \in { Missing, Some("A"), Some("B") },
        q \in { Missing, Some(0), Some(1) } }

InitTienda ==
    \E rows \in TablesOf(TiendaRows, MaxRows) : Start(Loaded(AllCols, rows))

SpecTienda == InitTienda /\ [][Next]_vars

\* Rows of store 1 in two years or without year, with sales 100, 200 or
\* missing, and rows of store 2 with sales 50.
AnoRows ==
    { Row(Some(1), Some("A"), v, Some(0), Some(1), y, Some(1), Some(1),
          Some("Monday"), Some("X"), Missing) :
        y \in { Missing, Some(2019), Some(2020) },
        v \in { Missing, Some(100), Some(200) } }

OtherStoreRows ==
    { Row(Some(2), Some("A"), Some(50), Some(0), Some(1), Some(y), Some(1),
          Some(1), Some("Monday"), Some("X"), Missing) : y \in { 2019, 2020 } }

InitAno ==
    \E rows \in TablesOf(AnoRows, MaxRows), more \in TablesOf(OtherStoreRows, 1) :
        Start(Loaded(AllCols, rows \o more))

SpecAno == InitAno /\ [][Next]_vars

\* Rows of state X: stores 1, 2 or missing, families A, B or missing, sales
\* 100 or 300; and a row of state Y.
EstadoRows ==
    { Row(st, f, Some(v), Some(0), Some(1), Some(2020), Some(1), Some(1),
          Some("Monday"), Some("X"), Missing) :
        st \in { Missing, Some(1), Some(2) },
        f \in { Missing, Some("A"), Some("B") },
        v \in { 100, 300 } }

OtherStateRows ==
    { Row(Some(2), Some("B"), Some(300), Some(0), Some(1), Some(2020), Some(1),
          Some(1), Some("Monday"), Some("Y"), Missing) }

InitEstado ==
    \E rows \in TablesOf(EstadoRows, MaxRows), more \in TablesOf(OtherStateRows, 1) :
        Start(Loaded(AllCols, rows \o more))

SpecEstado == InitEstado /\ [][RunOnce]_vars

\* Rows of families A, B and C with sales 1 or 2, in any order, followed by
\* n rows of n further families with sales 5.
TieRows ==
    { Row(Some(1), Some(f), Some(v), Some(0), Some(1), Some(2020), Some(1),
          Some(1), Some("Monday"), Some("X"), Missing) :
        f \in { "A", "B", "C" }, v \in 1..2 }

TieFill(n) ==
    [ i \in 1..n |->
        Row(Some(1), Some(Letters[3 + i]), Some(5), Some(0), Some(1), Some(2020),
            Some(1), Some(1), Some("Monday"), Some("X"), Missing) ]

InitTies ==
    \E rows \in TablesOf(TieRows, MaxRows), n \in { 0, TopN - 1 } :
        Start(Loaded(AllCols, rows \o TieFill(n)))

SpecTies == InitTies /\ [][RunOnce]_vars

\* Rows of one year with a holiday type, a blank one or none, and sales 1, 3
\* or missing.
FestivoRows ==
    { Row(Some(1), Some("A"), v, Some(0), Some(1), Some(2020), Some(1), Some(1),
          Some("Monday"), Some("X"), h) :
        h \in { Missing, Some(" "), Some("A") },
        v \in { Missing, Some(1), Some(3) } }

InitFestivo ==
    \E rows \in TablesOf(FestivoRows, MaxRows) : Start(Loaded(AllCols, rows))

SpecFestivo == InitFestivo /\ [][RunOnce]_vars

\* ------------------------------------------------------------------ claims
RunEnded == pc \in { "done", "crashed" }

\* The columns each aggregation reads from the table.
ColumnsNeeded(a) ==
    CASE a = "agregados_pestana_1" -> Aggs1Columns
      [] a = "ventas_por_ano" -> { "store_nbr", "year", "sales" }
      [] a = "productos" -> { "store_nbr", "family", "onpromotion" }
      [] a = "trans_por_ano" -> { "state", "transactions", "year" }
      [] a = "ranking_tiendas" -> { "state", "store_nbr", "sales" }
      [] a = "producto_lider" -> { "state", "store_nbr", "family", "sales" }
      [] a = "pct_promo" -> { "onpromotion", "year", "sales" }
      [] a = "promo_mes_year" -> { "onpromotion", "year", "month", "sales" }
      [] a = "top_family_promo" -> { "onpromotion", "year", "family", "sales" }
      [] a = "uplift" -> { "onpromotion", "year", "family", "sales" }
      [] a = "holiday" -> { "onpromotion", "year", "holiday_type", "sales" }
      [] a = "heat" -> { "onpromotion", "year", "month", "day_of_week", "sales" }

\* C1: an aggregation evaluated on a table that lacks a column it needs is
\* skipped with an explicit signal: it neither raises nor produces a value.
C1_MissingColumnIsSkipped ==
    \A a \in Aggregations :
        (status[a] # "pending" /\ ~(ColumnsNeeded(a) \subseteq frames["df"].cols))
            => status[a] = "skipped"

\* C2: no error is fatal to the run: when the run has ended every view has
\* been evaluated, and a view is not rendered only if an aggregation of its
\* own failed.
C2_FailureIsConfined ==
    RunEnded =>
        \A t \in Tabs :
            \/ view[t] = "rendered"
            \/ view[t] = "failed" /\ \E a \in AggsOf(t) : status[a] = "error"

\* C9: the canonical table is the same after every step of every run:
\* filters, derived columns and the coerced transactions go to copies.
C9_CanonicalTableNeverMutated ==
    [][frames'["df"] = frames["df"]]_vars

\* C9 witness: after a selection, a run has ended with en_promo and
\* es_festivo added and missing transactions filled in the working copies.
C9_Witness ==
    /\ pc = "done" /\ runs > 1
    /\ "en_promo" \in frames["df_aux"].cols
    /\ "es_festivo" \in frames["df_h"].cols
    /\ \E i \in 1..Len(frames["df_estado"].rows) :
          frames["df_estado"].rows[i].transactions = Some(0)
    /\ \E i \in 1..Len(frames["df"].rows) :
          /\ frames["df"].rows[i].state = sel.estado
          /\ IsNA(frames["df"].rows[i].transactions)
    /\ frames["df_tienda"].rows # frames["df"].rows

\* The top-10 tables computed so far, each with the keys of the groups of
\* its input.
TopTables ==
    (IF status["agregados_pestana_1"] = "ok"
     THEN << [tbl |-> aggs1.top_productos,
             groups |-> Distinct(frames["df"].rows, "family")],
            [tbl |-> aggs1.top_tiendas_promo,
             groups |-> { Val(r.store_nbr) :
                            r \in { x \in SeqRange(frames["df"].rows) :
                                      /\ NotNA(x.store_nbr) /\ NotNA(x.onpromotion)
                                      /\ Val(x.onpromotion) > 0 } }] >>
     ELSE << >>)
    \o
    (IF status["ranking_tiendas"] = "ok"
     THEN << [tbl |-> t3.ranking_tiendas,
             groups |-> Distinct(frames["df_estado"].rows, "store_nbr")] >>
     ELSE << >>)
    \o
    (IF status["producto_lider"] = "ok"
     THEN << [tbl |-> t3.top_productos_tienda,
             groups |-> { Val(r.family) :
                            r \in { x \in SeqRange(frames["df_estado"].rows) :
                                      /\ x.store_nbr = t3.tienda_lider
                                      /\ NotNA(x.family) } }] >>
     ELSE << >>)
    \o
    (IF status["top_family_promo"] = "ok"
     THEN << [tbl |-> t4.top_family_promo,
             groups |-> Distinct(frames["df_year"].rows, "family")] >>
     ELSE << >>)
    \o
    (IF status["uplift"] = "ok"
     THEN << [tbl |-> t4.top_uplift,
             groups |-> Distinct(frames["df_year"].rows, "family")] >>
     ELSE << >>)
    \o
    (IF status["holiday"] = "ok"
     THEN << [tbl |-> t4.top_holiday,
             groups |-> { Val(r.holiday_type) :
                            r \in { x \in SeqRange(frames["df_year"].rows) :
                                      /\ NotNA(x.holiday_type)
                                      /\ Val(x.holiday_type) \notin {"", " "} } }] >>
     ELSE << >>)

AtMostTopN(T) == Len(T.tbl) <= 10

EveryGroupOnce(T) ==
    Cardinality(T.groups) < 10 =>
        /\ Len(T.tbl) = Cardinality(T.groups)
        /\ { T.tbl[i].key : i \in 1..Len(T.tbl) } = T.groups

\* C3 as stated: every top-10 table has at most 10 rows, each row's measure
\* is >= the measure of every later row, and a table of fewer than 10 groups
\* holds every group exactly once.
C3_TopTablesNonIncreasing ==
    \A k \in 1..Len(TopTables) : LET T == TopTables[k] IN
        /\ AtMostTopN(T)
        /\ \A i, j \in 1..Len(T.tbl) : i < j => FGe(T.tbl[i].val, T.tbl[j].val)
        /\ EveryGroupOnce(T)

\* C3 amended: the rows with a defined measure are in non-increasing order
\* and the rows whose measure is missing (a group with no sales value) come
\* after them; at most 10 rows; every group once when fewer than 10 groups.
C3_TopTablesRanked ==
    \A k \in 1..Len(TopTables) : LET T == TopTables[k] IN
        /\ AtMostTopN(T)
        /\ \A i, j \in 1..Len(T.tbl) :
              i < j => \/ IsNaN(T.tbl[j].val)
                       \/ FGe(T.tbl[i].val, T.tbl[j].val)
        /\ EveryGroupOnce(T)

\* C3 witness: the run ended with the families and the stores cut to 10 rows
\* out of more groups, on measures that differ and with a missing measure.
C3_Witness ==
    /\ pc = "done"
    /\ Cardinality(Distinct(frames["df"].rows, "family")) > 10
    /\ Len(aggs1.top_productos) = 10
    /\ aggs1.top_productos[1].val # aggs1.top_productos[10].val
    /\ Cardinality(Distinct(frames["df_estado"].rows, "store_nbr")) > 10
    /\ Len(t3.ranking_tiendas) = 10
    /\ t3.ranking_tiendas[1].val # t3.ranking_tiendas[10].val
    /\ Len(t4.top_uplift) = 10
    /\ \E i \in 1..Len(t4.top_holiday) : IsNaN(t4.top_holiday[i].val)

\* The sum of fn over the set S.
RECURSIVE SumFn(_, _)
SumFn(S, fn) ==
    IF S = {} THEN 0
    ELSE LET x == CHOOSE y \in S : TRUE IN fn[x] + SumFn(S \ {x}, fn)

\* The sum of the sales of the rows of a table whose positions are in S.
SalesOver(rows, S) == SumFn(S, [ i \in S |-> Val(rows[i].sales) ])

\* The positions of the rows of family f that have a sales value, promoted
\* (onpromotion > 0) or not (onpromotion 0 or missing).
Promoted(rows, f) ==
    { i \in 1..Len(rows) : /\ rows[i].family = Some(f) /\ NotNA(rows[i].sales)
                           /\ NotNA(rows[i].onpromotion)
                           /\ Val(rows[i].onpromotion) > 0 }
NonPromoted(rows, f) ==
    { i \in 1..Len(rows) : /\ rows[i].family = Some(f) /\ NotNA(rows[i].sales)
                           /\ ~(NotNA(rows[i].onpromotion)
                                /\ Val(rows[i].onpromotion) > 0) }

\* C4 as stated: each percentage is a finite number, and is 0 when its
\* denominator is 0: the year's promotion share, the promoted share of each
\* month, the promotional share of each family, each store's share of the
\* state's sales.
C4_RatioIsZeroOnZeroDenominator ==
    /\ status["pct_promo"] = "ok" =>
          /\ IsNum(t4.pct_promo)
          /\ t4.ventas_tot = Zero => t4.pct_promo = Zero
    /\ status["promo_mes_year"] = "ok" =>
          \A i \in 1..Len(t4.pivot_share) :
              LET r == t4.pivot_share[i] IN
              /\ IsNum(r.pct)
              /\ r.con.n + r.sin.n = 0 => r.pct = Zero
    /\ status["top_family_promo"] = "ok" =>
          \A i \in 1..Len(t4.family_merge) :
              LET r == t4.family_merge[i] IN
              /\ IsNum(r.val)
              /\ r.ventas_totales = Zero => r.val = Zero
    /\ status["ranking_tiendas"] = "ok" =>
          \A i \in 1..Len(t3.ranking_tiendas) :
              LET r == t3.ranking_tiendas[i] IN
              /\ IsNum(r.pct)
              /\ SumCells(Column(frames["df_estado"].rows, "sales")) = 0
                    => r.pct = Zero

\* C5: the uplift table has one row per family of the year slice; the uplift
\* is mean_promoted / mean_non_promoted - 1 (mean_promoted taken as 0 when no
\* promoted row has a sales value) when the mean of the non-promoted sales is
\* strictly positive, and 0 otherwise; it is always a finite number.
C5_UpliftIsGuardedRatio ==
    status["uplift"] = "ok" =>
        LET rows == frames["df_year"].rows IN
        /\ { t4.uplift[i].key : i \in 1..Len(t4.uplift) } = Distinct(rows, "family")
        /\ Len(t4.uplift) = Cardinality(Distinct(rows, "family"))
        /\ \A i \in 1..Len(t4.uplift) :
              LET u == t4.uplift[i].val
                  P == Promoted(rows, t4.uplift[i].key)
                  N == NonPromoted(rows, t4.uplift[i].key)
                  sumP == SalesOver(rows, P)
                  sumN == SalesOver(rows, N)
                  cntP == Cardinality(P)
                  cntN == Cardinality(N)
              IN  /\ IsNum(u)
                  /\ IF cntN > 0 /\ sumN > 0
                     THEN IF cntP = 0 THEN u = Num(-1)
                          ELSE \* u = (sumP/cntP) / (sumN/cntN) - 1
                               u.n * (cntP * sumN) = u.d * (sumP * cntN - cntP * sumN)
                     ELSE u = Zero

\* C5 witness: the run ended with a family whose promoted and non-promoted
\* sales both have a positive mean and whose uplift is a proper ratio.
C5_Witness ==
    /\ pc = "done"
    /\ \E i \in 1..Len(t4.uplift) :
          /\ t4.uplift[i].val \notin { Zero, Num(-1) }
          /\ FGt(t4.uplift[i].mean_sales_no_promo, Zero)
          /\ FGt(t4.uplift[i].mean_sales_promo, Zero)

\* Whether label a comes before label b in the canonical order of the set
\* of labels L: the English week if all of L is English, else the Spanish
\* week if all of L is Spanish, else the order of the strings.
CanonBefore(L, a, b) ==
    IF L \subseteq SeqRange(orden_en) THEN PosIn(orden_en, a) < PosIn(orden_en, b)
    ELSE IF L \subseteq SeqRange(orden_es) THEN PosIn(orden_es, a) < PosIn(orden_es, b)
    ELSE StrRank(a) < StrRank(b)

\* The sequence of labels ks holds each label of L once, in canonical order.
InCanonOrder(L, ks) ==
    /\ SeqRange(ks) = L
    /\ \A i, j \in 1..Len(ks) : i < j => CanonBefore(L, ks[i], ks[j])

\* The rows of the year slice that the heatmap groups.
HeatCell(rows, m, d) ==
    { i \in 1..Len(rows) : rows[i].month = Some(m) /\ rows[i].day_of_week = Some(d) }

\* C6: the day-of-week table of the global view and the rows of the heatmap
\* are in the canonical order of the labels present (English week, else
\* Spanish week, else string order); {Lunes, Viernes, Martes} is shown as
\* Lunes, Martes, Viernes; labels and values are those of the grouping.
C6_CanonicalWeekdayOrder ==
    /\ view["tab1"] = "rendered" =>
          LET L == Distinct(frames["df"].rows, "day_of_week") IN
          /\ InCanonOrder(L, Keys(t1.tmp_dia))
          /\ SeqRange(t1.tmp_dia) = SeqRange(aggs1.media_por_dia)
          /\ Len(t1.tmp_dia) = Len(aggs1.media_por_dia)
          /\ L = { "Lunes", "Viernes", "Martes" }
                => Keys(t1.tmp_dia) = << "Lunes", "Martes", "Viernes" >>
    /\ status["heat"] = "ok" =>
          LET rows == frames["df_year"].rows
              L == { Val(rows[i].day_of_week) :
                       i \in { j \in 1..Len(rows) : /\ NotNA(rows[j].day_of_week)
                                                    /\ NotNA(rows[j].month) } }
          IN
          /\ InCanonOrder(L, t4.pivot_index)
          /\ \A i, j \in 1..Len(t4.heat) :
                (i < j /\ t4.heat[i].month = t4.heat[j].month)
                    => CanonBefore(L, t4.heat[i].key, t4.heat[j].key)
          /\ \A i \in 1..Len(t4.heat) :
                LET h == t4.heat[i]
                    S == { k \in HeatCell(rows, h.month, h.key) : NotNA(rows[k].sales) }
                IN  /\ HeatCell(rows, h.month, h.key) # {}
                    /\ IF t4.metrica = Some("Ventas totales")
                       THEN h.val = Num(SalesOver(rows, S))
                       ELSE IF S = {} THEN IsNaN(h.val)
                       ELSE h.val.n * Cardinality(S) = h.val.d * SalesOver(rows, S)
          /\ Len(t4.heat) =
                Cardinality({ << rows[i].month, rows[i].day_of_week >> :
                                i \in { j \in 1..Len(rows) :
                                          /\ NotNA(rows[j].day_of_week)
                                          /\ NotNA(rows[j].month) } })

\* C6 witness: the run ended on the labels Lunes, Viernes, Martes and
\* Domingo, shown in the Spanish week order, which is neither the order of
\* the strings nor the order of the aggregate.
C6_Witness ==
    /\ pc = "done"
    /\ Keys(t1.tmp_dia) = << "Lunes", "Martes", "Viernes", "Domingo" >>
    /\ Keys(aggs1.media_por_dia) # Keys(t1.tmp_dia)
    /\ t4.pivot_index = << "Lunes", "Martes", "Viernes", "Domingo" >>
    /\ Len(t4.heat) = 4

\* C7 as stated: the table under key media_por_dia of agregados_pestana_1 is
\* in the canonical weekday sequence.
C7_MediaPorDiaCanonical ==
    status["agregados_pestana_1"] = "ok" =>
        InCanonOrder(Distinct(frames["df"].rows, "day_of_week"),
                     Keys(aggs1.media_por_dia))

\* C7 amended: media_por_dia holds one row per label in descending order of
\* the mean sales (a missing mean last); the canonical weekday sequence is
\* that of the copy tmp_dia which the global view displays.
C7_MediaPorDiaDescending ==
    /\ status["agregados_pestana_1"] = "ok" =>
          LET m == aggs1.media_por_dia IN
          /\ { m[i].key : i \in 1..Len(m) } = Distinct(frames["df"].rows, "day_of_week")
          /\ Len(m) = Cardinality(Distinct(frames["df"].rows, "day_of_week"))
          /\ \A i, j \in 1..Len(m) :
                i < j => IsNaN(m[j].val) \/ FGe(m[i].val, m[j].val)
    /\ view["tab1"] = "rendered" =>
          InCanonOrder(Distinct(frames["df"].rows, "day_of_week"), Keys(t1.tmp_dia))

\* C7 witness: the global view is rendered, the aggregate is in descending
\* order of the means, which is not the weekday sequence, and the displayed
\* copy is in the weekday sequence.
C7_Witness ==
    /\ view["tab1"] = "rendered"
    /\ Keys(aggs1.media_por_dia) = << "Sunday", "Tuesday", "Monday" >>
    /\ Keys(t1.tmp_dia) = << "Monday", "Tuesday", "Sunday" >>
    /\ FGt(aggs1.media_por_dia[1].val, aggs1.media_por_dia[3].val)

\* The mean tables of agregados_pestana_1 with their grouping column; the
\* promoted-store table groups the promoted rows only.
MeanTables ==
    << [tbl |-> aggs1.top_productos, c |-> "family", promo |-> FALSE] >>
    \o << [tbl |-> aggs1.ventas_por_tienda, c |-> "store_nbr", promo |-> FALSE] >>
    \o << [tbl |-> aggs1.top_tiendas_promo, c |-> "store_nbr", promo |-> TRUE] >>
    \o << [tbl |-> aggs1.media_por_dia, c |-> "day_of_week", promo |-> FALSE] >>
    \o << [tbl |-> aggs1.media_por_semana, c |-> "week", promo |-> FALSE] >>
    \o << [tbl |-> aggs1.media_por_mes, c |-> "month", promo |-> FALSE] >>

\* The positions of the rows of the group k of the table T.
GroupOf(rows, T, k) ==
    { i \in 1..Len(rows) :
        /\ rows[i][T.c] = Some(k)
        /\ T.promo => (NotNA(rows[i].onpromotion) /\ Val(rows[i].onpromotion) > 0) }

\* The rows of a table in the order given by the permutation p.
Permuted(rows, p) == [ i \in 1..Len(rows) |-> rows[p[i]] ]

\* C8: each row of each mean table holds the arithmetic mean of the
\* non-missing sales of its group (nan when the group has none), each group
\* has its row, and the set of (key, mean) pairs of each table is the same
\* for every permutation of the input rows.
C8_MeanOfGroupAnyOrder ==
    status["agregados_pestana_1"] = "ok" =>
        LET rows == frames["df"].rows IN
        /\ \A k \in 1..Len(MeanTables) :
              LET T == MeanTables[k] IN
              /\ \A i \in 1..Len(rows) :
                    (NotNA(rows[i][T.c]) /\ GroupOf(rows, T, Val(rows[i][T.c])) # {})
                        => \E j \in 1..Len(T.tbl) : Some(T.tbl[j].key) = rows[i][T.c]
              /\ \A i, j \in 1..Len(T.tbl) : i # j => T.tbl[i].key # T.tbl[j].key
              /\ \A j \in 1..Len(T.tbl) :
                    LET G == GroupOf(rows, T, T.tbl[j].key)
                        N == { i \in G : NotNA(rows[i].sales) }
                        m == T.tbl[j].val
                    IN  /\ G # {}
                        /\ IF N = {} THEN IsNaN(m)
                           ELSE /\ IsNum(m)
                                /\ m.n * Cardinality(N) = m.d * SalesOver(rows, N)
        /\ \A p \in Permutations(1..Len(rows)) :
              LET a == agregados_pestana_1(Permuted(rows, p)) IN
              /\ SeqRange(a.top_productos) = SeqRange(aggs1.top_productos)
              /\ SeqRange(a.ventas_por_tienda) = SeqRange(aggs1.ventas_por_tienda)
              /\ SeqRange(a.top_tiendas_promo) = SeqRange(aggs1.top_tiendas_promo)
              /\ SeqRange(a.media_por_dia) = SeqRange(aggs1.media_por_dia)
              /\ SeqRange(a.media_por_semana) = SeqRange(aggs1.media_por_semana)
              /\ SeqRange(a.media_por_mes) = SeqRange(aggs1.media_por_mes)

\* C8 witness: two different rows, one of them without sales, fall in one
\* family and in two stores; the family's mean is the one sales value.
C8_Witness ==
    /\ status["agregados_pestana_1"] = "ok"
    /\ Len(frames["df"].rows) = 2
    /\ frames["df"].rows[1].sales = Missing
    /\ frames["df"].rows[2].sales = Some(2)
    /\ aggs1.top_productos = << [key |-> "A", val |-> Num(2)] >>
    /\ Len(aggs1.ventas_por_tienda) = 2
    /\ IsNaN(aggs1.ventas_por_tienda[2].val)

\* C10: for the selected store, productos_totales is the number of distinct
\* non-missing families of the store's rows, productos_promo the number of
\* distinct families with a row of the store with onpromotion > 0; families
\* {A} without promoted rows give 1 and 0; productos_promo never exceeds
\* productos_totales.
C10_ProductosDeLaTienda ==
    (view["tab2"] = "rendered" /\ NotNA(t2.tienda_sel)) =>
        LET rows == frames["df"].rows
            mine == { i \in 1..Len(rows) : /\ rows[i].store_nbr = t2.tienda_sel
                                           /\ NotNA(rows[i].family) }
            promoted == { i \in mine : /\ NotNA(rows[i].onpromotion)
                                       /\ Val(rows[i].onpromotion) > 0 }
            F == { Val(rows[i].family) : i \in mine }
            P == { Val(rows[i].family) : i \in promoted }
        IN  /\ t2.productos_totales = Cardinality(F)
            /\ t2.productos_promo = Cardinality(P)
            /\ t2.productos_promo <= t2.productos_totales
            /\ (F = { "A" } /\ promoted = {})
                  => (t2.productos_totales = 1 /\ t2.productos_promo = 0)

\* C10 witness: the user has selected the second store, which is not the
\* default; its one row is of family A and is not promoted; the counts are
\* 1 and 0.
C10_Witness ==
    /\ view["tab2"] = "rendered"
    /\ runs > 1
    /\ t2.tienda_sel = Some(2)
    /\ t2.index_default = 0
    /\ \E i \in 1..Len(frames["df"].rows) :
          /\ frames["df"].rows[i].store_nbr = Some(2)
          /\ frames["df"].rows[i].family = Some("A")
          /\ frames["df"].rows[i].onpromotion = Some(0)
    /\ t2.productos_totales = 1
    /\ t2.productos_promo = 0

\* The positions of the rows of store s in year y.
StoreYear(rows, s, y) ==
    { i \in 1..Len(rows) : rows[i].store_nbr = s /\ rows[i].year = Some(y) }

\* C11: for the selected store, ventas_por_ano has one row per distinct
\* non-missing year of the store's rows, in strictly ascending order of the
\* year, and each value is the sum of the sales of the store's rows of that
\* year; store 1 with 100 and 200 in 2020 next to store 2 with 50 gives
\* [(2020, 300)].
C11_VentasPorAnoDeLaTienda ==
    (status["ventas_por_ano"] = "ok" /\ NotNA(t2.tienda_sel)) =>
        LET rows == frames["df"].rows
            s == t2.tienda_sel
            v == t2.ventas_por_ano
            Y == { Val(rows[i].year) :
                     i \in { j \in 1..Len(rows) : /\ rows[j].store_nbr = s
                                                   /\ NotNA(rows[j].year) } }
        IN  /\ { v[i].key : i \in 1..Len(v) } = Y
            /\ \A i, j \in 1..Len(v) : i < j => v[i].key < v[j].key
            /\ \A i \in 1..Len(v) :
                  LET G == { k \in StoreYear(rows, s, v[i].key) : NotNA(rows[k].sales) }
                  IN  v[i].val = Num(SalesOver(rows, G))
            /\ (/\ s = Some(1)
                /\ Len(rows) = 3
                /\ \A i \in 1..3 : rows[i].year = Some(2020)
                /\ rows[1].sales = Some(100) /\ rows[2].sales = Some(200)
                /\ rows[3].store_nbr = Some(2))
                  => v = << [key |-> 2020, val |-> Num(300)] >>

\* C11 witness: store 1 has 100 and 200 in 2020, store 2 has 50 in 2020,
\* store 1 is selected and its table is [(2020, 300)].
C11_Witness ==
    /\ status["ventas_por_ano"] = "ok"
    /\ t2.tienda_sel = Some(1)
    /\ Len(frames["df"].rows) = 3
    /\ frames["df"].rows[3].store_nbr = Some(2)
    /\ frames["df"].rows[3].year = Some(2020)
    /\ t2.ventas_por_ano = << [key |-> 2020, val |-> Num(300)] >>

\* The positions of the rows of state e; the summed sales of a store, and of
\* a family of a store, within the state.
StateRows(rows, e) == { i \in 1..Len(rows) : rows[i].state = e }

StoreSales(rows, e, st) ==
    SalesOver(rows, { i \in StateRows(rows, e) :
                        rows[i].store_nbr = Some(st) /\ NotNA(rows[i].sales) })

FamilySales(rows, e, st, f) ==
    SalesOver(rows, { i \in StateRows(rows, e) :
                        /\ rows[i].store_nbr = Some(st)
                        /\ rows[i].family = Some(f)
                        /\ NotNA(rows[i].sales) })

\* The leader store and the leading product, when computed, are those of the
\* highest summed sales in the selected state.
LeaderIsHighest ==
    status["producto_lider"] = "ok" =>
        LET rows == frames["df"].rows
            e == t3.estado_sel
            l == Val(t3.tienda_lider)
            p == Val(t3.producto_lider)
        IN  /\ \A i \in StateRows(rows, e) :
                  NotNA(rows[i].store_nbr) =>
                      StoreSales(rows, e, l) >= StoreSales(rows, e, Val(rows[i].store_nbr))
            /\ \A i \in StateRows(rows, e) :
                  (rows[i].store_nbr = Some(l) /\ NotNA(rows[i].family)) =>
                      FamilySales(rows, e, l, p) >= FamilySales(rows, e, l, Val(rows[i].family))
            /\ \E i \in StateRows(rows, e) :
                  rows[i].store_nbr = Some(l) /\ rows[i].family = Some(p)

\* C12 as stated: for the selected state the leader store and the leading
\* product are those of the highest summed sales; the computation is skipped
\* only when the state has no rows, and otherwise yields a leading product
\* without failing.
C12_LeaderAlwaysYielded ==
    /\ LeaderIsHighest
    /\ status["producto_lider"] \in { "skipped", "error" }
          => StateRows(frames["df"].rows, t3.estado_sel) = {}

\* The positions of the rows of family f that have a sales value, and the
\* position of the first row of family f.
FamilyRows(rows, f) ==
    { i \in 1..Len(rows) : rows[i].family = Some(f) /\ NotNA(rows[i].sales) }

FirstRow(rows, f) ==
    CHOOSE i \in 1..Len(rows) :
        /\ rows[i].family = Some(f)
        /\ \A j \in 1..(i - 1) : rows[j].family # Some(f)

\* Families f and g have the same defined mean of sales.
SameMean(rows, f, g) ==
    /\ FamilyRows(rows, f) # {} /\ FamilyRows(rows, g) # {}
    /\ SalesOver(rows, FamilyRows(rows, f)) * Cardinality(FamilyRows(rows, g))
         = SalesOver(rows, FamilyRows(rows, g)) * Cardinality(FamilyRows(rows, f))

\* C13 as stated: of two families with equal mean sales, the one whose first
\* row comes first in the input comes first in top_productos, and is the one
\* kept when only one of them fits in the ten rows.
C13_TiesKeepDiscoveryOrder ==
    status["agregados_pestana_1"] = "ok" =>
        LET rows == frames["df"].rows
            top == Keys(aggs1.top_productos)
        IN  \A f, g \in Distinct(rows, "family") :
              (/\ f # g
               /\ SameMean(rows, f, g)
               /\ FirstRow(rows, f) < FirstRow(rows, g)
               /\ g \in SeqRange(top))
                  => /\ f \in SeqRange(top)
                     /\ PosIn(top, f) < PosIn(top, g)

\* The positions of the holiday rows of a table (holiday_type neither missing
\* nor blank), and of the other rows.
HolidayRows(rows) ==
    { i \in 1..Len(rows) : /\ NotNA(rows[i].holiday_type)
                           /\ Val(rows[i].holiday_type) \notin { "", " " } }

OrdinaryRows(rows) == (1..Len(rows)) \ HolidayRows(rows)

\* m is the mean of the sales of the rows at the positions S, or 0 when none
\* of them has a sales value.
MeanOrZero(rows, S, m) ==
    LET N == { i \in S : NotNA(rows[i].sales) }
    IN  IF N = {} THEN m = Zero
        ELSE IsNum(m) /\ m.n * Cardinality(N) = m.d * SalesOver(rows, N)

\* C14 as stated: the holiday mean is the mean of the sales of the holiday
\* rows of the year slice, the non-holiday mean that of the other rows, and
\* each is exactly 0 when its rows contribute no sales value.
C14_HolidayMeansNeverMissing ==
    status["holiday"] = "ok" =>
        LET rows == frames["df_year"].rows IN
        /\ MeanOrZero(rows, HolidayRows(rows), t4.ventas_festivo)
        /\ MeanOrZero(rows, OrdinaryRows(rows), t4.ventas_no_festivo)

\* The summed sales of the rows whose column c holds k.
TotalOf(rows, c, k) ==
    SalesOver(rows, { i \in 1..Len(rows) : rows[i][c] = Some(k) /\ NotNA(rows[i].sales) })

\* The default at position index of the option list is a valid position and
\* no key of column c has a higher total of sales.
DefaultIsTop(rows, c, list, index) ==
    /\ index \in 0..(Len(list) - 1)
    /\ SeqRange(list) = Distinct(rows, c)
    /\ \A i, j \in 1..Len(list) :
          i < j => IF c = "state" THEN StrRank(list[i]) < StrRank(list[j])
                   ELSE list[i] < list[j]
    /\ \A k \in Distinct(rows, c) :
          TotalOf(rows, c, list[index + 1]) >= TotalOf(rows, c, k)

\* C15 as stated: whenever the table has the store_nbr (resp. state) column,
\* the per-store (resp. per-state) view gets a default that is a valid
\* position of the sorted list of the distinct stores (resp. states) and
\* that has the highest total sales, also for a table without rows.
C15_DefaultSelectionIsTop ==
    /\ (view["tab2"] # "pending" /\ Has(frames["df"], "store_nbr")) =>
          /\ view["tab2"] = "rendered"
          /\ DefaultIsTop(frames["df"].rows, "store_nbr", t2.tiendas, t2.index_default)
    /\ (view["tab3"] # "pending" /\ Has(frames["df"], "state")) =>
          /\ error # "IndexError" \/ t3.estados # << >>
          /\ t3.estados # << >> =>
                DefaultIsTop(frames["df"].rows, "state", t3.estados, t3.index_default)

\* The positions of the rows of month m, and those of them that are promoted
\* (onpromotion > 0); the sum of the sales of the rows at the positions S.
MonthRows(rows, m) == { i \in 1..Len(rows) : rows[i].month = Some(m) }

PromotedIn(rows, S) ==
    { i \in S : NotNA(rows[i].onpromotion) /\ Val(rows[i].onpromotion) > 0 }

SalesIn(rows, S) == SalesOver(rows, { i \in S : NotNA(rows[i].sales) })

NonNegativeSales(rows) ==
    \A i \in 1..Len(rows) : IsNA(rows[i].sales) \/ Val(rows[i].sales) >= 0

InPercentRange(x) == IsNum(x) /\ FGe(x, Zero) /\ FGe(Num(100), x)

\* Every row of the year slice is flagged promoted exactly when its
\* onpromotion is > 0, and each month's promoted and non-promoted sums are
\* the sums of the sales of its promoted and of its other rows, which add up
\* to the month's total.
PromoSplit ==
    LET rows == frames["df_year"].rows IN
    /\ \A i \in 1..Len(rows) :
          rows[i].en_promo = Some(i \in PromotedIn(rows, 1..Len(rows)))
    /\ { t4.pivot_share[i].month : i \in 1..Len(t4.pivot_share) }
          = Distinct(rows, "month")
    /\ \A i \in 1..Len(t4.pivot_share) :
          LET r == t4.pivot_share[i]
              M == MonthRows(rows, r.month)
              P == PromotedIn(rows, M)
          IN  /\ r.con = Num(SalesIn(rows, P))
              /\ r.sin = Num(SalesIn(rows, M \ P))
              /\ FAdd(r.con, r.sin) = Num(SalesIn(rows, M))
    /\ t4.ventas_promo = Num(SalesIn(rows, PromotedIn(rows, 1..Len(rows))))
    /\ t4.ventas_tot = Num(SalesIn(rows, 1..Len(rows)))

\* C16 as stated: the split is a partition, the promoted sales do not exceed
\* the total when the sales are non-negative, and every per-month and
\* whole-year promoted percentage lies in [0, 100].
C16_PercentagesAlwaysInRange ==
    status["promo_mes_year"] = "ok" =>
        /\ PromoSplit
        /\ NonNegativeSales(frames["df_year"].rows)
              => FGe(t4.ventas_tot, t4.ventas_promo)
        /\ InPercentRange(t4.pct_promo)
        /\ \A i \in 1..Len(t4.pivot_share) : InPercentRange(t4.pivot_share[i].pct)

\* C16 amended: the split is a partition; when the sales of the year slice
\* are non-negative, the promoted sales do not exceed the total and every
\* per-month and whole-year promoted percentage lies in [0, 100].
C16_PromoSplitIsPartition ==
    status["promo_mes_year"] = "ok" =>
        /\ PromoSplit
        /\ NonNegativeSales(frames["df_year"].rows) =>
              /\ FGe(t4.ventas_tot, t4.ventas_promo)
              /\ InPercentRange(t4.pct_promo)
              /\ \A i \in 1..Len(t4.pivot_share) :
                    InPercentRange(t4.pivot_share[i].pct)

\* C16 witness: a month of a slice of non-negative sales has a promoted row
\* and a row of missing onpromotion, both with sales; its promoted share is
\* strictly between 0 and 100.
C16_Witness ==
    /\ status["promo_mes_year"] = "ok"
    /\ NonNegativeSales(frames["df_year"].rows)
    /\ Len(frames["df_year"].rows) = 2
    /\ frames["df_year"].rows[1].onpromotion = Missing
    /\ frames["df_year"].rows[1].en_promo = Some(FALSE)
    /\ frames["df_year"].rows[2].en_promo = Some(TRUE)
    /\ t4.pivot_share = << [month |-> 1, con |-> Num(1), sin |-> Num(2),
                            pct |-> Rat(100, 3)] >>
    /\ t4.pct_promo = Rat(100, 3)

=============================================================================
